---- MODULE Spec2Model ----
(***************************************************************************)
(* A model of Rule (src/src/rule.js): the configuration setters and the    *)
(* prioritized, short-circuiting evaluation of a tree of conditions        *)
(* against the facts of an engine.                                         *)
(*                                                                         *)
(* A condition is a record [kind, fact, priority, children]: kind is       *)
(* "leaf", "all" or "any"; priority 0 stands for a falsy priority          *)
(* (absent, 0 or NaN); a position in the tree is the sequence of child     *)
(* indices that leads to it from the root.  JavaScript values of mixed     *)
(* type are strings: "true", "false", "undefined".                         *)
(***************************************************************************)
EXTENDS Integers, Sequences, FiniteSets, TLC

VARIABLES
    phase,       \* "new" before the constructor ran, "constructed" after it, "failed" when it threw
    priority,    \* this.priority
    conditions,  \* this.conditions
    event,       \* this.event
    engine,      \* this.engine
    lastCall,    \* the last constructor or setter call: what it was given and whether it threw
    run,         \* the evaluate() call in progress: its promise, cursors and fact lookups
    second,      \* a second evaluate() call on the same rule, as run
    order,       \* "sequential" when the second call was made after the first settled,
                 \* "concurrent" when it was made before, "none" before it is made
    provider     \* the answer of the engine for each fact, when its answers are fixed

vars == <<phase, priority, conditions, event, engine, lastCall, run, second, order, provider>>

rule == <<priority, conditions, event, engine>>

\* what belongs to a second call
again == <<second, order, provider>>

----------------------------------------------------------------------------
(* Bounds of the model *)

\* priorities of conditions and facts range over 1..MaxPriority
MaxPriority == 2
\* the number of leaves, each of its own priority, of the wide lists
WideWidth == 4
\* the longest string given as a priority
MaxStrLen == 2

----------------------------------------------------------------------------
(* Conditions: the shape Rule consumes *)

Leaf(f, p) == [kind |-> "leaf", fact |-> f, priority |-> p, children |-> <<>>]

Bool(op, p, ch) == [kind |-> op, fact |-> "undefined", priority |-> p, children |-> ch]

Undefined == [kind |-> "undefined", fact |-> "undefined", priority |-> 0, children |-> <<>>]

isBooleanOperator(condition) == condition.kind \in {"all", "any"}

RECURSIVE NodeAt(_, _)
NodeAt(node, path) ==
    IF path = <<>> THEN node ELSE NodeAt(node.children[Head(path)], Tail(path))

RECURSIVE PathsOf(_, _)
PathsOf(node, path) ==
    {path} \cup UNION {PathsOf(node.children[i], Append(path, i)) : i \in 1..Len(node.children)}

BoolPaths(tree) == {p \in PathsOf(tree, <<>>) : isBooleanOperator(NodeAt(tree, p))}

LeafPaths(tree) == {p \in PathsOf(tree, <<>>) : NodeAt(tree, p).kind = "leaf"}

IsPrefix(p, q) == Len(p) <= Len(q) /\ SubSeq(q, 1, Len(p)) = p

\* the leaves of the subtree at path p
LeavesUnder(tree, p) == {q \in LeafPaths(tree) : IsPrefix(p, q)}

----------------------------------------------------------------------------
(* The engine: the facts it has registered and the answers it gives *)

FactNames == {"f1", "f2", "f3", "f4", "f5"}

NoEngine == [set |-> FALSE, facts |-> <<>>]

\* engine.getFact(name): the fact's descriptor, or undefined
getFact(eng, name) ==
    IF eng.set /\ name \in DOMAIN eng.facts /\ eng.facts[name].registered
    THEN [defined |-> TRUE, priority |-> eng.facts[name].priority]
    ELSE [defined |-> FALSE, priority |-> 0]

\* the engine is not bound to fixed answers
NoProvider == <<>>

\* what the promise of engine.factValue(fact, params) can settle to: a value
\* on which the leaf's comparison gives true, one on which it gives false, or
\* a rejection
Answers == {"true", "false", "fail"}

\* condition.evaluate(comparisonValue): the result of the leaf's comparison on
\* the fact's value (an answer stands for that result), and the nested result
\* itself for a boolean node
conditionEvaluate(condition, comparisonValue) == comparisonValue

----------------------------------------------------------------------------
(* JavaScript values given as a priority, and parseInt *)

undefined == [t |-> "undefined", n |-> 0, s |-> <<>>]

NaN == [t |-> "NaN", n |-> 0, s |-> <<>>]

Num(k) == [t |-> "number", n |-> k, s |-> <<>>]

Str(chars) == [t |-> "string", n |-> 0, s |-> chars]

Digits == <<"0", "1", "2", "3", "4", "5", "6", "7", "8", "9">>

IsDigit(c) == \E i \in 1..Len(Digits) : Digits[i] = c

DigitValue(c) == (CHOOSE i \in 1..Len(Digits) : Digits[i] = c) - 1

\* the decimal digits of a natural number
RECURSIVE DigitsOf(_)
DigitsOf(k) ==
    IF k < 10 THEN <<Digits[k + 1]>> ELSE Append(DigitsOf(k \div 10), Digits[(k % 10) + 1])

\* String(v) of a number
NumberToString(k) == IF k < 0 THEN <<"-">> \o DigitsOf(-k) ELSE DigitsOf(k)

RECURSIVE StripLeft(_)
StripLeft(chars) ==
    IF chars # <<>> /\ Head(chars) = " " THEN StripLeft(Tail(chars)) ELSE chars

\* the longest prefix of digits
RECURSIVE DigitPrefix(_)
DigitPrefix(chars) ==
    IF chars # <<>> /\ IsDigit(Head(chars))
    THEN <<Head(chars)>> \o DigitPrefix(Tail(chars))
    ELSE <<>>

RECURSIVE DecimalValue(_)
DecimalValue(digits) ==
    IF digits = <<>> THEN 0
    ELSE 10 * DecimalValue(SubSeq(digits, 1, Len(digits) - 1)) + DigitValue(digits[Len(digits)])

\* parseInt of a string, radix 10: leading blanks, a sign, then digits; NaN without a digit
parseIntString(chars) ==
    LET stripped == StripLeft(chars)
        negative == stripped # <<>> /\ Head(stripped) = "-"
        signed == stripped # <<>> /\ Head(stripped) \in {"-", "+"}
        digits == DigitPrefix(IF signed THEN Tail(stripped) ELSE stripped)
    IN  IF digits = <<>> THEN NaN
        ELSE Num(IF negative THEN -DecimalValue(digits) ELSE DecimalValue(digits))

\* parseInt(v, 10)
parseInt(v) ==
    IF v.t = "string" THEN parseIntString(v.s)
    ELSE IF v.t = "number" THEN parseIntString(NumberToString(v.n))
    ELSE NaN

\* v is truthy
Truthy(v) ==
    \/ v.t = "number" /\ v.n # 0
    \/ v.t = "string" /\ v.s # <<>>

----------------------------------------------------------------------------
(* The constructor and the setters *)

\* new Condition(properties): a boolean condition always has a priority,
\* 1 by default; its children are wrapped in turn
RECURSIVE Condition(_)
Condition(properties) ==
    IF isBooleanOperator(properties)
    THEN [properties EXCEPT
             !.priority = IF properties.priority = 0 THEN 1 ELSE properties.priority,
             !.children = [i \in 1..Len(properties.children) |->
                              Condition(properties.children[i])]]
    ELSE properties

\* params(event).only(['type', 'params'])
only(eventGiven, keys) == [k \in DOMAIN eventGiven \cap keys |-> eventGiven[k]]

\* the priority is stored before it is validated
setPriorityStoresFirst(this, given) ==
    LET parsed == parseInt(given)
    IN  IF parsed.t = "number" /\ parsed.n <= 0
        THEN [this EXCEPT !.priority = parsed, !.threw = TRUE]
        ELSE [this EXCEPT !.priority = parsed]

\* setPriority(priority) on the fields this
setPriority(this, given) ==
    LET parsed == parseInt(given)
    IN  IF parsed.t = "number" /\ parsed.n <= 0
        THEN [this EXCEPT !.threw = TRUE]
        ELSE [this EXCEPT !.priority = parsed]

\* setConditions(conditions) on the fields this
setConditions(this, given) ==
    IF given.kind \notin {"all", "any"}
    THEN [this EXCEPT !.threw = TRUE]
    ELSE [this EXCEPT !.conditions = Condition(given)]

\* setEvent(event) on the fields this
setEvent(this, given) == [this EXCEPT !.event = only(given, {"type", "params"})]

\* setEngine(engine) on the fields this
setEngine(this, given) == [this EXCEPT !.engine = given]

NoOptions == [given |-> FALSE, conditions |-> Undefined, priority |-> undefined,
              hasEvent |-> FALSE, event |-> <<>>]

DefaultEvent == [k \in {"type"} |-> "unknown"]

\* the constructor, on options given as an object (or not given)
constructor(this, options) ==
    LET withConditions ==
            IF options.given /\ options.conditions # Undefined
            THEN setConditions(this, options.conditions)
            ELSE this
        prio == IF options.given /\ Truthy(options.priority) THEN options.priority ELSE Num(1)
        withPriority == IF withConditions.threw THEN withConditions
                        ELSE setPriority(withConditions, prio)
        ev == IF options.given /\ options.hasEvent THEN options.event ELSE DefaultEvent
    IN  IF withPriority.threw THEN withPriority ELSE setEvent(withPriority, ev)

\* the rule as a call finds it: its fields, and no error thrown yet
This == [priority |-> priority, conditions |-> conditions, event |-> event, engine |-> engine,
         threw |-> FALSE]

\* the fields become those of next, and the call is recorded: the priority
\* it was given and the root key of the conditions it was given, if any
Called(op, givenPriority, givenRoot, next) ==
    /\ priority' = next.priority
    /\ conditions' = next.conditions
    /\ event' = next.event
    /\ engine' = next.engine
    /\ lastCall' = [op |-> op, threw |-> next.threw, n |-> lastCall.n + 1,
                    priority |-> givenPriority, root |-> givenRoot]
    /\ UNCHANGED <<run, again>>

----------------------------------------------------------------------------
(* prioritizeConditions *)

NoError == [type |-> "none", fact |-> "undefined"]

\* sets[priority].push(condition), creating sets[priority] when it is missing;
\* a condition is named by its index in the list
Push(sets, key, i) ==
    [k \in DOMAIN sets \cup {key} |->
        IF k \in DOMAIN sets
        THEN (IF k = key THEN Append(sets[k], i) ELSE sets[k])
        ELSE <<i>>]

RECURSIVE factSetsFrom(_, _, _, _)

\* a fact that is not registered gives priority 1 instead of an error
factSetsFromDefault(conds, eng, i, acc) ==
    IF i > Len(conds) \/ acc.thrown THEN acc
    ELSE LET condition == conds[i]
             fact == getFact(eng, condition.fact)
             prio == IF condition.priority # 0 THEN condition.priority
                     ELSE IF fact.defined THEN fact.priority ELSE 1
         IN  factSetsFrom(conds, eng, i + 1, [acc EXCEPT !.sets = Push(acc.sets, prio, i)])

\* the reduce over the conditions, from condition i on
factSetsFrom(conds, eng, i, acc) ==
    IF i > Len(conds) \/ acc.thrown THEN acc
    ELSE LET condition == conds[i]
             fact == getFact(eng, condition.fact)
         IN  IF condition.priority = 0 /\ ~fact.defined
             THEN [acc EXCEPT !.thrown = TRUE,
                              !.err = [type |-> "UndefinedFact", fact |-> condition.fact]]
             ELSE LET prio == IF condition.priority # 0 THEN condition.priority
                              ELSE fact.priority
                  IN  factSetsFrom(conds, eng, i + 1,
                                   [acc EXCEPT !.sets = Push(acc.sets, prio, i)])

\* Object.keys of an object whose keys are non-negative integers: the keys
\* as strings, in ascending numeric order
RECURSIVE ObjectKeys(_)
ObjectKeys(S) ==
    IF S = {} THEN <<>>
    ELSE LET m == CHOOSE x \in S : \A y \in S : x <= y
         IN  <<NumberToString(m)>> \o ObjectKeys(S \ {m})

\* Number(key) of a key made of digits
Number(key) == DecimalValue(key)

\* a > b on strings of digits: by the first character that differs, a proper
\* prefix being the smaller
RECURSIVE StringGreater(_, _)
StringGreater(a, b) ==
    IF a = <<>> THEN FALSE
    ELSE IF b = <<>> THEN TRUE
    ELSE IF Head(a) = Head(b) THEN StringGreater(Tail(a), Tail(b))
    ELSE DigitValue(Head(a)) > DigitValue(Head(b))

\* the keys are compared as strings
compareStrings(a, b) == IF StringGreater(a, b) THEN -1 ELSE 1

\* the comparator given to sort: highest priority first
compare(a, b) == IF Number(a) > Number(b) THEN -1 ELSE 1

RECURSIVE SortInsert(_, _)
SortInsert(x, s) ==
    IF s = <<>> THEN <<x>>
    ELSE IF compare(x, Head(s)) < 0 THEN <<x>> \o s
    ELSE <<Head(s)>> \o SortInsert(x, Tail(s))

RECURSIVE sort(_)
sort(s) == IF s = <<>> THEN <<>> ELSE SortInsert(Head(s), sort(Tail(s)))

\* [thrown, err, sets]: the error thrown, or the groups of condition indices,
\* highest priority first
prioritizeConditions(conds, eng) ==
    LET Mapped(factSets, keys) ==
            [factSets EXCEPT !.sets = [g \in 1..Len(keys) |-> factSets.sets[Number(keys[g])]]]
        Sorted(factSets) ==
            IF factSets.thrown THEN factSets
            ELSE CHOOSE sets \in {Mapped(factSets, keys) :
                                     keys \in {sort(ObjectKeys(DOMAIN factSets.sets))}} : TRUE
    IN  CHOOSE sets \in {Sorted(factSets) :
                            factSets \in {factSetsFrom(conds, eng, 1,
                                              [thrown |-> FALSE, err |-> NoError, sets |-> <<>>])}} : TRUE

----------------------------------------------------------------------------
(* One evaluate() call *)

\* a call of prioritizeAndRun on the list at some position: the state of its
\* cursor once idx callbacks have run, the value the last callback gave (val),
\* the ordered sets, and as history: for each callback run whether it evaluated
\* its set (ran), the value each callback gave (vals), and the lookups that
\* had been initiated when the call was made (seen)
NoFrame == [st |-> "none", idx |-> 0, val |-> "undefined", err |-> NoError,
            sets |-> <<>>, ran |-> <<>>, vals |-> <<>>, seen |-> {}]

NoRun == [state |-> "idle", value |-> "undefined", err |-> NoError,
          frames |-> <<>>, lookups |-> <<>>]

\* the cursor before the callbacks were chained is returned
ReturnedFirstCursor(f) == f.st \in {"rejected", "fulfilled"}

\* the promise prioritizeAndRun returned is settled
Returned(f) == f.st = "rejected" \/ (f.st = "fulfilled" /\ f.idx = Len(f.sets))

\* Array.prototype.some whatever the operator
methodSome(operator, results) ==
    IF \E k \in 1..Len(results) : results[k] = "true" THEN "true" ELSE "false"

\* Array.prototype.every or Array.prototype.some, called with (result) => result === true
method(operator, results) ==
    IF operator = "all"
    THEN IF \A k \in 1..Len(results) : results[k] = "true" THEN "true" ELSE "false"
    ELSE IF \E k \in 1..Len(results) : results[k] = "true" THEN "true" ELSE "false"

\* the synchronous part of any(conditions) or all(conditions) for the list at p
prioritizeAndRun(r, tree, eng, p) ==
    LET orderedSets == prioritizeConditions(NodeAt(tree, p).children, eng)
        seen == {q \in DOMAIN r.lookups : r.lookups[q] # "none"}
    IN  IF orderedSets.thrown
        THEN [r EXCEPT !.frames[p] = [NoFrame EXCEPT !.st = "rejected", !.err = orderedSets.err,
                                                     !.seen = seen]]
        ELSE [r EXCEPT !.frames[p] = [NoFrame EXCEPT !.st = "fulfilled", !.sets = orderedSets.sets,
                                                     !.seen = seen]]

\* evaluateCondition(condition) up to its await, for the condition at q
evaluateCondition(r, tree, eng, q) ==
    IF isBooleanOperator(NodeAt(tree, q))
    THEN prioritizeAndRun(r, tree, eng, q)
    ELSE [r EXCEPT !.lookups[q] = "pending"]

\* only the first condition of the set is evaluated
evaluateConditionsFirst(r, tree, eng, p, set, k) ==
    IF k > Len(set) THEN r ELSE evaluateCondition(r, tree, eng, Append(p, set[k]))

\* every condition of the list is evaluated, whatever the set
RECURSIVE evaluateConditionsWholeList(_, _, _, _, _, _)
evaluateConditionsWholeList(r, tree, eng, p, set, k) ==
    IF k > Len(NodeAt(tree, p).children) THEN r
    ELSE evaluateConditionsWholeList(evaluateCondition(r, tree, eng, Append(p, k)),
                                     tree, eng, p, set, k + 1)

\* conditions.map(evaluateCondition) over the set, from its member k on
RECURSIVE evaluateConditions(_, _, _, _, _, _)
evaluateConditions(r, tree, eng, p, set, k) ==
    IF k > Len(set) THEN r
    ELSE evaluateConditions(evaluateCondition(r, tree, eng, Append(p, set[k])),
                            tree, eng, p, set, k + 1)

\* `stop` has been assigned in a callback of some evaluate() call on the rule
Stopped ==
    \E r \in {run, second} : \E p \in DOMAIN r.frames :
        \E g \in 1..Len(r.frames[p].ran) : ~r.frames[p].ran[g]

\* `stop` is kept on the rule: once assigned it is true for every callback
skipAnyShared(operator, setResult) == (operator = "any" /\ setResult = "true") \/ Stopped

\* the test of line 164 left out
skipAnyNever(operator, setResult) == FALSE

\* the test of line 164; `stop` is local to the callback of one set and is
\* assigned only where the callback returns, so it is false where it is read
skipAny(operator, setResult) == operator = "any" /\ setResult = "true"

\* `stop` is kept on the rule: once assigned it is true for every callback
skipAllShared(operator, setResult) == (operator = "all" /\ setResult = "false") \/ Stopped

\* the test of line 171 left out
skipAllNever(operator, setResult) == FALSE

\* the test of line 171, where `stop` is false likewise
skipAll(operator, setResult) == operator = "all" /\ setResult = "false"

\* the callback chained on the cursor for the next set of the list at p
cursorThen(r, tree, eng, p) ==
    LET f == r.frames[p]
        operator == NodeAt(tree, p).kind
        set == f.sets[f.idx + 1]
    IN  IF skipAny(operator, f.val)
        THEN [r EXCEPT !.frames[p] = [f EXCEPT !.idx = f.idx + 1, !.val = "true",
                                               !.ran = Append(f.ran, FALSE),
                                               !.vals = Append(f.vals, "true")]]
        ELSE IF skipAll(operator, f.val)
        THEN [r EXCEPT !.frames[p] = [f EXCEPT !.idx = f.idx + 1, !.val = "false",
                                               !.ran = Append(f.ran, FALSE),
                                               !.vals = Append(f.vals, "false")]]
        ELSE evaluateConditions(
                 [r EXCEPT !.frames[p] = [f EXCEPT !.idx = f.idx + 1, !.st = "pending",
                                                   !.ran = Append(f.ran, TRUE)]],
                 tree, eng, p, set, 1)

\* the promise of evaluateCondition for child i of the list at p
ConditionPromise(r, tree, p, i) ==
    LET q == Append(p, i)
        condition == NodeAt(tree, q)
    IN  IF isBooleanOperator(condition)
        THEN LET f == r.frames[q]
             IN  IF f.st = "rejected" THEN [st |-> "rejected", val |-> "undefined", err |-> f.err]
                 ELSE IF Returned(f)
                 THEN [st |-> "fulfilled", val |-> conditionEvaluate(condition, f.val), err |-> NoError]
                 ELSE [st |-> "pending", val |-> "undefined", err |-> NoError]
        ELSE LET l == r.lookups[q]
             IN  IF l = "fail"
                 THEN [st |-> "rejected", val |-> "undefined",
                       err |-> [type |-> "FactFailure", fact |-> condition.fact]]
                 ELSE IF l \in {"true", "false"}
                 THEN [st |-> "fulfilled", val |-> conditionEvaluate(condition, l), err |-> NoError]
                 ELSE [st |-> "pending", val |-> "undefined", err |-> NoError]

\* the set the list at p is evaluating
CurrentSet(r, p) == r.frames[p].sets[r.frames[p].idx]

\* a rejection is swallowed: the rejected member counts as not true
evaluateConditionsSwallows(r, tree, p, settled) ==
    LET f == r.frames[p]
        set == CurrentSet(r, p)
        conditionResults == [k \in 1..Len(set) |-> ConditionPromise(r, tree, p, set[k]).val]
        result == method(NodeAt(tree, p).kind, conditionResults)
    IN  [r EXCEPT !.frames[p] = [f EXCEPT !.st = "fulfilled", !.val = result,
                                          !.vals = Append(f.vals, result)]]

\* the continuation of evaluateConditions for the set the list at p is
\* evaluating, once Promise.all has settled
evaluateConditionsSettled(r, tree, p, settled) ==
    LET f == r.frames[p]
        set == CurrentSet(r, p)
        conditionResults == [k \in 1..Len(set) |-> ConditionPromise(r, tree, p, set[k]).val]
    IN  IF settled.st = "rejected"
        THEN [r EXCEPT !.frames[p] = [f EXCEPT !.st = "rejected", !.err = settled.err]]
        ELSE LET result == method(NodeAt(tree, p).kind, conditionResults)
             IN  [r EXCEPT !.frames[p] = [f EXCEPT !.st = "fulfilled", !.val = result,
                                                   !.vals = Append(f.vals, result)]]

\* the synchronous part of evaluate()
evaluate(tree, eng) ==
    LET r == [NoRun EXCEPT !.state = "pending",
                           !.frames = [p \in BoolPaths(tree) |-> NoFrame],
                           !.lookups = [q \in LeafPaths(tree) |-> "none"]]
    IN  prioritizeAndRun(r, tree, eng, <<>>)

----------------------------------------------------------------------------
(* The steps of an evaluation *)

\* the conditions of the root list are put in reverse order in place
EvaluateReorders ==
    /\ phase = "constructed"
    /\ run.state = "idle"
    /\ conditions # Undefined
    /\ engine.set
    /\ run' = evaluate(conditions, engine)
    /\ conditions' = [conditions EXCEPT
                         !.children = [i \in 1..Len(conditions.children) |->
                                          conditions.children[Len(conditions.children) + 1 - i]]]
    /\ UNCHANGED <<phase, priority, event, engine, lastCall, again>>

\* evaluate() is called on a rule whose conditions and engine are set
Evaluate ==
    /\ phase = "constructed"
    /\ run.state = "idle"
    /\ conditions # Undefined
    /\ engine.set
    /\ run' = evaluate(conditions, engine)
    /\ UNCHANGED <<phase, rule, lastCall, again>>

\* the callback runs when the cursor before it is rejected, too
CursorThenAlways(p) ==
    /\ run.frames[p].st \in {"fulfilled", "rejected"}
    /\ run.frames[p].idx < Len(run.frames[p].sets)
    /\ run' = cursorThen(run, conditions, engine, p)
    /\ UNCHANGED <<phase, rule, lastCall, again>>

\* a callback chained on a cursor runs: the cursor before it is fulfilled
CursorThen(p) ==
    /\ run.frames[p].st = "fulfilled"
    /\ run.frames[p].idx < Len(run.frames[p].sets)
    /\ run' = cursorThen(run, conditions, engine, p)
    /\ UNCHANGED <<phase, rule, lastCall, again>>

\* the promise of engine.factValue for the leaf at q settles, and
\* evaluateCondition goes on to condition.evaluate
FactValueSettles(q) ==
    /\ run.lookups[q] = "pending"
    /\ \E answer \in Answers : run' = [run EXCEPT !.lookups[q] = answer]
    /\ UNCHANGED <<phase, rule, lastCall, again>>

\* the promise is fulfilled as soon as one member is
PromiseAnySettles(p) ==
    /\ run.frames[p].st = "pending"
    /\ LET set == CurrentSet(run, p)
           promises == [k \in 1..Len(set) |-> ConditionPromise(run, conditions, p, set[k])]
       IN  /\ \E k \in 1..Len(set) : promises[k].st = "fulfilled"
           /\ run' = evaluateConditionsSettled(run, conditions, p,
                         [st |-> "fulfilled", val |-> "undefined", err |-> NoError])
    /\ UNCHANGED <<phase, rule, lastCall, again>>

\* the promise settles only when every member is fulfilled
PromiseAllFulfilledOnly(p) ==
    /\ run.frames[p].st = "pending"
    /\ LET set == CurrentSet(run, p)
           promises == [k \in 1..Len(set) |-> ConditionPromise(run, conditions, p, set[k])]
       IN  /\ \A k \in 1..Len(set) : promises[k].st = "fulfilled"
           /\ run' = evaluateConditionsSettled(run, conditions, p,
                         [st |-> "fulfilled", val |-> "undefined", err |-> NoError])
    /\ UNCHANGED <<phase, rule, lastCall, again>>

\* Promise.all over the set the list at p is evaluating settles: rejected as
\* soon as a member is, fulfilled when every member is
PromiseAllSettles(p) ==
    /\ run.frames[p].st = "pending"
    /\ LET set == CurrentSet(run, p)
           promises == [k \in 1..Len(set) |-> ConditionPromise(run, conditions, p, set[k])]
       IN  \/ \E k \in 1..Len(set) :
                /\ promises[k].st = "rejected"
                /\ run' = evaluateConditionsSettled(run, conditions, p, promises[k])
           \/ /\ \A k \in 1..Len(set) : promises[k].st = "fulfilled"
              /\ run' = evaluateConditionsSettled(run, conditions, p,
                            [st |-> "fulfilled", val |-> "undefined", err |-> NoError])
    /\ UNCHANGED <<phase, rule, lastCall, again>>

\* the promise evaluate() returned settles with what the root list gave
EvaluateSettles ==
    /\ run.state = "pending"
    /\ Returned(run.frames[<<>>])
    /\ LET f == run.frames[<<>>]
       IN  run' = IF f.st = "rejected"
                  THEN [run EXCEPT !.state = "rejected", !.err = f.err]
                  ELSE [run EXCEPT !.state = "resolved", !.value = f.val]
    /\ UNCHANGED <<phase, rule, lastCall, again>>

----------------------------------------------------------------------------
(* The rules and engines evaluated *)

FactOf == <<"f1", "f2", "f3", "f4", "f5">>

Operators == {"all", "any"}

\* k leaves, the i-th on fact number from + i
Leaves(from, k) == [i \in 1..k |-> Leaf(FactOf[from + i], 0)]

\* the shapes of the general trees: lists of up to three leaves, lists that
\* hold a nested list (empty, or of one or two leaves) beside a leaf, and a
\* list nested in a list nested in a list
Skeletons ==
    UNION {
        {Bool(op, 1, Leaves(0, k)) : k \in 0..3}
        \cup {Bool(op, 1, <<Bool(op2, 1, Leaves(0, k)), Leaf(FactOf[k + 1], 0)>>) : k \in 0..2}
        \cup {Bool(op, 1, <<Leaf(FactOf[1], 0), Bool(op2, 1, Leaves(1, 1))>>),
              Bool(op, 1, <<Bool(op2, 1, <<Bool(op, 1, Leaves(0, 1)), Leaf(FactOf[2], 0)>>)>>)}
        : <<op, op2>> \in Operators \X Operators}

\* the tree with the priority of each condition below the root taken from prio
RECURSIVE Prioritized(_, _, _)
Prioritized(node, path, prio) ==
    [node EXCEPT !.priority = IF path = <<>> THEN node.priority ELSE prio[path],
                 !.children = [i \in 1..Len(node.children) |->
                                  Prioritized(node.children[i], Append(path, i), prio)]]

\* the lowest and the highest priority
PriorityEnds == {1, MaxPriority}

\* a leaf has any priority or none (0); a nested list, which always has a
\* priority, has the lowest or the highest
PrioritiesOf(tree) ==
    {prio \in [PathsOf(tree, <<>>) \ {<<>>} -> 0..MaxPriority] :
        \A p \in BoolPaths(tree) \ {<<>>} : prio[p] \in PriorityEnds}

FactsUsed(tree) == {NodeAt(tree, q).fact : q \in LeafPaths(tree)}

Unregistered == [registered |-> FALSE, priority |-> 0]

\* the engines for a tree: each fact the tree uses is registered with the
\* lowest or the highest priority, or is not registered; the fact of a leaf
\* that has a priority of its own, whose priority is never read, is
\* registered with the lowest priority or is not registered
EnginesFor(tree) ==
    {[set |-> TRUE,
      facts |-> [n \in FactNames |-> IF n \in FactsUsed(tree) THEN fs[n] ELSE Unregistered]] :
        fs \in {gs \in [FactsUsed(tree) ->
                           [registered : {TRUE}, priority : PriorityEnds] \cup {Unregistered}] :
                   \A q \in LeafPaths(tree) :
                       NodeAt(tree, q).priority # 0 => gs[NodeAt(tree, q).fact].priority <= 1}}

Orderings(n) == {f \in [1..n -> 1..n] : \A i, j \in 1..n : f[i] = f[j] => i = j}

\* a wide list: WideWidth leaves, each of its own explicit priority
WideTrees ==
    {Bool(op, 1, [i \in 1..WideWidth |-> Leaf(FactOf[i], prio[i])]) :
        <<op, prio>> \in Operators \X Orderings(WideWidth)}

\* the engine for a wide list: the facts of its leaves registered
WideEngine ==
    [set |-> TRUE,
     facts |-> [n \in FactNames |->
                   IF n \in {FactOf[i] : i \in 1..WideWidth}
                   THEN [registered |-> TRUE, priority |-> 1]
                   ELSE Unregistered]]

InitEvaluation ==
    /\ phase = "constructed"
    /\ priority = Num(1)
    /\ event = DefaultEvent
    /\ run = NoRun
    /\ second = NoRun
    /\ order = "none"
    /\ provider = NoProvider
    /\ \/ \E skeleton \in Skeletons : \E prio \in PrioritiesOf(skeleton) :
            /\ conditions = Prioritized(skeleton, <<>>, prio)
            /\ engine \in EnginesFor(conditions)
       \/ /\ conditions \in WideTrees
          /\ engine = WideEngine
    /\ lastCall = [op |-> "constructor", threw |-> FALSE, n |-> 1,
                   priority |-> undefined, root |-> conditions.kind]

NextEvaluation ==
    \/ Evaluate
    \/ \E p \in DOMAIN run.frames : CursorThen(p)
    \/ \E q \in DOMAIN run.lookups : FactValueSettles(q)
    \/ \E p \in DOMAIN run.frames : PromiseAllSettles(p)
    \/ EvaluateSettles

Spec == InitEvaluation /\ [][NextEvaluation]_vars

\* the steps that follow the call of evaluate(): the callbacks the event loop
\* runs once their promise is settled, and the completions of the lookups
Progress ==
    \/ \E p \in DOMAIN run.frames : CursorThen(p)
    \/ \E q \in DOMAIN run.lookups : FactValueSettles(q)
    \/ \E p \in DOMAIN run.frames : PromiseAllSettles(p)
    \/ EvaluateSettles

\* the trees whose leaves have no priority of their own: the sets follow from
\* the priorities of the facts and of the nested lists
InitFair ==
    /\ InitEvaluation
    /\ \A q \in LeafPaths(conditions) : NodeAt(conditions, q).priority = 0

\* every callback that can run does run, and every lookup initiated completes
SpecFair == InitFair /\ [][NextEvaluation]_vars /\ WF_vars(Progress)

----------------------------------------------------------------------------
(* Two evaluate() calls on one rule, against an engine whose answers are fixed *)

\* a list of two leaves, of any priorities or none; and a list that holds a
\* nested list of two sets beside a leaf, in the set of the leaf or before it
CallTrees ==
    {Bool(op, 1, <<Leaf(FactOf[1], a), Leaf(FactOf[2], b)>>) :
        <<op, a, b>> \in Operators \X (0..MaxPriority) \X (0..MaxPriority)}
    \cup {Bool(op, 1, <<Bool(op2, n, <<Leaf(FactOf[1], MaxPriority), Leaf(FactOf[2], 1)>>),
                         Leaf(FactOf[3], 1)>>) :
             <<op, op2, n>> \in Operators \X Operators \X PriorityEnds}

\* the engine of the calls: the first and the third fact are registered, the
\* second is not
CallEngine ==
    [set |-> TRUE,
     facts |-> [n \in FactNames |->
                   IF n \in {FactOf[1], FactOf[3]}
                   THEN [registered |-> TRUE, priority |-> 1]
                   ELSE Unregistered]]

\* the answers of the engine: one for each fact the tree uses
ProvidersFor(tree) ==
    {[n \in FactNames |-> IF n \in FactsUsed(tree) THEN answers[n] ELSE "true"] :
        answers \in [FactsUsed(tree) -> Answers]}

InitCalls ==
    /\ phase = "constructed"
    /\ priority = Num(1)
    /\ event = DefaultEvent
    /\ run = NoRun
    /\ second = NoRun
    /\ order = "none"
    /\ conditions \in CallTrees
    /\ engine = CallEngine
    /\ provider \in ProvidersFor(conditions)
    /\ lastCall = [op |-> "constructor", threw |-> FALSE, n |-> 1,
                   priority |-> undefined, root |-> conditions.kind]

\* the promise of engine.factValue for the leaf at q settles to the answer of
\* the engine for its fact
FactValueAnswers(q) ==
    /\ run.lookups[q] = "pending"
    /\ run' = [run EXCEPT !.lookups[q] = provider[NodeAt(conditions, q).fact]]
    /\ UNCHANGED <<phase, rule, lastCall, again>>

\* evaluate() is called again, after the first call settled or before
EvaluateAgain ==
    /\ phase = "constructed"
    /\ run.state # "idle"
    /\ second.state = "idle"
    /\ conditions # Undefined
    /\ engine.set
    /\ second' = evaluate(conditions, engine)
    /\ order' = IF run.state \in {"resolved", "rejected"} THEN "sequential" ELSE "concurrent"
    /\ UNCHANGED <<phase, rule, lastCall, run, provider>>

\* a callback chained on a cursor of the second call runs
SecondCursorThen(p) ==
    /\ second.frames[p].st = "fulfilled"
    /\ second.frames[p].idx < Len(second.frames[p].sets)
    /\ second' = cursorThen(second, conditions, engine, p)
    /\ UNCHANGED <<phase, rule, lastCall, run, order, provider>>

\* a lookup of the second call settles to the answer of the engine
SecondFactValueAnswers(q) ==
    /\ second.lookups[q] = "pending"
    /\ second' = [second EXCEPT !.lookups[q] = provider[NodeAt(conditions, q).fact]]
    /\ UNCHANGED <<phase, rule, lastCall, run, order, provider>>

\* Promise.all over a set of the second call settles
SecondPromiseAllSettles(p) ==
    /\ second.frames[p].st = "pending"
    /\ LET set == CurrentSet(second, p)
           promises == [k \in 1..Len(set) |-> ConditionPromise(second, conditions, p, set[k])]
       IN  \/ \E k \in 1..Len(set) :
                /\ promises[k].st = "rejected"
                /\ second' = evaluateConditionsSettled(second, conditions, p, promises[k])
           \/ /\ \A k \in 1..Len(set) : promises[k].st = "fulfilled"
              /\ second' = evaluateConditionsSettled(second, conditions, p,
                               [st |-> "fulfilled", val |-> "undefined", err |-> NoError])
    /\ UNCHANGED <<phase, rule, lastCall, run, order, provider>>

\* the promise the second call returned settles
SecondEvaluateSettles ==
    /\ second.state = "pending"
    /\ Returned(second.frames[<<>>])
    /\ LET f == second.frames[<<>>]
       IN  second' = IF f.st = "rejected"
                     THEN [second EXCEPT !.state = "rejected", !.err = f.err]
                     ELSE [second EXCEPT !.state = "resolved", !.value = f.val]
    /\ UNCHANGED <<phase, rule, lastCall, run, order, provider>>

NextCalls ==
    \/ Evaluate
    \/ \E p \in DOMAIN run.frames : CursorThen(p)
    \/ \E q \in DOMAIN run.lookups : FactValueAnswers(q)
    \/ \E p \in DOMAIN run.frames : PromiseAllSettles(p)
    \/ EvaluateSettles
    \/ EvaluateAgain
    \/ \E p \in DOMAIN second.frames : SecondCursorThen(p)
    \/ \E q \in DOMAIN second.lookups : SecondFactValueAnswers(q)
    \/ \E p \in DOMAIN second.frames : SecondPromiseAllSettles(p)
    \/ SecondEvaluateSettles

SpecCalls == InitCalls /\ [][NextCalls]_vars

----------------------------------------------------------------------------
(* The lists prioritized: priorities of one and of two digits *)

\* no priority, and priorities whose numeric and lexical orders differ
PrioritySamples == {0, 1, 2, 9, 10}

\* lists of up to three leaves, and a list of two leaves and a nested list
SampleTrees ==
    UNION {{Bool(op, 1, [i \in 1..k |-> Leaf(FactOf[i], prio[i])]) :
               prio \in [1..k -> PrioritySamples]} : <<op, k>> \in Operators \X (0..3)}
    \cup {Bool(op, 1, <<Leaf(FactOf[1], prio[1]), Bool(op, prio[2], <<>>), Leaf(FactOf[2], prio[3])>>) :
             <<op, prio>> \in Operators \X [1..3 -> PrioritySamples \ {0}]}

\* the engines: each fact a list uses is registered, with a priority of one
\* digit or of two
SampleEngines ==
    {[set |-> TRUE,
      facts |-> [n \in FactNames |-> IF n \in DOMAIN fs
                                      THEN [registered |-> TRUE, priority |-> fs[n]]
                                      ELSE Unregistered]] :
        fs \in [{FactOf[i] : i \in 1..3} -> {2, 10}]}

InitPrioritize ==
    /\ phase = "constructed"
    /\ priority = Num(1)
    /\ event = DefaultEvent
    /\ run = NoRun
    /\ second = NoRun
    /\ order = "none"
    /\ provider = NoProvider
    /\ conditions \in SampleTrees
    /\ engine \in SampleEngines
    /\ lastCall = [op |-> "constructor", threw |-> FALSE, n |-> 1,
                   priority |-> undefined, root |-> conditions.kind]

\* evaluate() up to the prioritized sets of the root list
SpecPrioritize == InitPrioritize /\ [][Evaluate]_vars

----------------------------------------------------------------------------
(* The rule under construction and configuration *)

\* at most MaxCalls calls are made on a rule
MaxCalls == 3

Chars == {"-", "0", "1", "a", " "}

Strings == UNION {[1..k -> Chars] : k \in 0..MaxStrLen}

PriorityInputs ==
    {undefined} \cup {Num(k) : k \in (-1)..MaxPriority} \cup {Str(chars) : chars \in Strings}

\* {all: []}, {any: [leaf]}, {all: [{any: [leaf]}, leaf]} with no priority
\* given, and as roots with neither `all` nor `any`: {} and a leaf
ConditionsInputs ==
    {Bool("all", 0, <<>>),
     Bool("any", 0, <<Leaf("f1", 0)>>),
     Bool("all", 0, <<Bool("any", 0, <<Leaf("f1", 2)>>), Leaf("f2", 0)>>),
     [kind |-> "object", fact |-> "undefined", priority |-> 0, children |-> <<>>],
     Leaf("f1", 0)}

EventInputs ==
    {[k \in keys |-> IF k = "type" THEN "fired" ELSE "data"] :
        keys \in {{"type"}, {"type", "params"}, {"type", "params", "extra"}}}

EngineInputs ==
    {NoEngine,
     [set |-> TRUE,
      facts |-> [n \in FactNames |-> [registered |-> TRUE, priority |-> 1]]]}

OptionsInputs ==
    {NoOptions}
    \cup [given : {TRUE}, conditions : ConditionsInputs \cup {Undefined},
          priority : PriorityInputs, hasEvent : {TRUE}, event : EventInputs]
    \cup [given : {TRUE}, conditions : ConditionsInputs \cup {Undefined},
          priority : PriorityInputs, hasEvent : {FALSE}, event : {<<>>}]

\* new Rule(options)
Construct(options) ==
    /\ phase = "new"
    /\ LET made == constructor(This, options)
       IN  /\ phase' = IF made.threw THEN "failed" ELSE "constructed"
           /\ Called("constructor", options.priority, options.conditions.kind, made)

\* rule.setPriority(given)
SetPriority(given) ==
    /\ phase = "constructed"
    /\ lastCall.n < MaxCalls
    /\ Called("setPriority", given, "undefined", setPriority(This, given))
    /\ UNCHANGED phase

\* rule.setConditions(given)
SetConditions(given) ==
    /\ phase = "constructed"
    /\ lastCall.n < MaxCalls
    /\ Called("setConditions", undefined, given.kind, setConditions(This, given))
    /\ UNCHANGED phase

\* rule.setEvent(given)
SetEvent(given) ==
    /\ phase = "constructed"
    /\ lastCall.n < MaxCalls
    /\ Called("setEvent", undefined, "undefined", setEvent(This, given))
    /\ UNCHANGED phase

\* rule.setEngine(given)
SetEngine(given) ==
    /\ phase = "constructed"
    /\ lastCall.n < MaxCalls
    /\ Called("setEngine", undefined, "undefined", setEngine(This, given))
    /\ UNCHANGED phase

InitRule ==
    /\ phase = "new"
    /\ priority = undefined
    /\ conditions = Undefined
    /\ event = <<>>
    /\ engine = NoEngine
    /\ lastCall = [op |-> "none", threw |-> FALSE, n |-> 0,
                   priority |-> undefined, root |-> "undefined"]
    /\ run = NoRun
    /\ second = NoRun
    /\ order = "none"
    /\ provider = NoProvider

NextRule ==
    \/ \E options \in OptionsInputs : Construct(options)
    \/ \E given \in PriorityInputs : SetPriority(given)
    \/ \E given \in ConditionsInputs : SetConditions(given)
    \/ \E given \in EventInputs : SetEvent(given)
    \/ \E given \in EngineInputs : SetEngine(given)

SpecRule == InitRule /\ [][NextRule]_vars

----------------------------------------------------------------------------
(* Vocabulary of the properties *)

\* the leaves of the conditions of set g of the list at p, those of nested lists included
SetLeaves(p, g) ==
    UNION {LeavesUnder(conditions, Append(p, run.frames[p].sets[g][k])) :
              k \in 1..Len(run.frames[p].sets[g])}

\* engine.factValue has been called for the leaf at q
Initiated(q) == run.lookups[q] # "none"

\* the promise evaluate() returned is settled
Settled == run.state \in {"resolved", "rejected"}

\* set g of the list at p was evaluated and its combined result is known
SetResultKnown(p, g) ==
    /\ g <= Len(run.frames[p].vals)
    /\ run.frames[p].ran[g]

\* the standard boolean value of the condition at q as far as the answers
\* given so far decide it: "true" or "false" when it is the same whatever
\* the leaves not looked up would answer, "unknown" otherwise
RECURSIVE Truth(_)
Truth(q) ==
    LET node == NodeAt(conditions, q)
        values == {Truth(Append(q, i)) : i \in 1..Len(node.children)}
    IN  IF node.kind = "leaf"
        THEN (IF run.lookups[q] \in {"true", "false"} THEN run.lookups[q] ELSE "unknown")
        ELSE IF node.kind = "all"
        THEN (IF "false" \in values THEN "false"
              ELSE IF "unknown" \in values THEN "unknown" ELSE "true")
        ELSE (IF "true" \in values THEN "true"
              ELSE IF "unknown" \in values THEN "unknown" ELSE "false")

\* every list of the tree is non-empty, every fact is registered, and no lookup has failed
Wellformed ==
    /\ \A p \in BoolPaths(conditions) : NodeAt(conditions, p).children # <<>>
    /\ \A q \in LeafPaths(conditions) : engine.facts[NodeAt(conditions, q).fact].registered
    /\ \A q \in DOMAIN run.lookups : run.lookups[q] # "fail"

----------------------------------------------------------------------------
(* Properties *)

\* C1: in an `any` list split into two or more sets, once a set's combined
\* result is true no lookup is ever initiated for a condition of a later set,
\* the list gives true, and when the list is the root evaluate() resolves true.
C1_AnyShortCircuit ==
    \A p \in DOMAIN run.frames :
        LET f == run.frames[p]
        IN  (NodeAt(conditions, p).kind = "any" /\ Len(f.sets) >= 2) =>
                \A g \in 1..Len(f.sets) :
                    (SetResultKnown(p, g) /\ f.vals[g] = "true") =>
                        /\ \A h \in (g + 1)..Len(f.sets) :
                              \A q \in SetLeaves(p, h) : ~Initiated(q)
                        /\ f.st # "rejected"
                        /\ Returned(f) => f.val = "true"
                        /\ (p = <<>> /\ Settled) =>
                              (run.state = "resolved" /\ run.value = "true")

C1_Witness ==
    /\ conditions.kind = "any"
    /\ run.state = "resolved"
    /\ Len(run.frames[<<>>].sets) >= 2
    /\ SetResultKnown(<<>>, 1)
    /\ run.frames[<<>>].vals[1] = "true"
    /\ SetLeaves(<<>>, 2) # {}

\* C2: in an `all` list split into two or more sets, once a set's combined
\* result is false no lookup is ever initiated for a condition of a later set,
\* however many sets follow, the list gives false, and when the list is the
\* root evaluate() resolves false.
C2_AllShortCircuit ==
    \A p \in DOMAIN run.frames :
        LET f == run.frames[p]
        IN  (NodeAt(conditions, p).kind = "all" /\ Len(f.sets) >= 2) =>
                \A g \in 1..Len(f.sets) :
                    (SetResultKnown(p, g) /\ f.vals[g] = "false") =>
                        /\ \A h \in (g + 1)..Len(f.sets) :
                              \A q \in SetLeaves(p, h) : ~Initiated(q)
                        /\ f.st # "rejected"
                        /\ Returned(f) => f.val = "false"
                        /\ (p = <<>> /\ Settled) =>
                              (run.state = "resolved" /\ run.value = "false")

\* the first of four sets fails, three sets follow it
C2_Witness ==
    /\ conditions.kind = "all"
    /\ run.state = "resolved"
    /\ Len(run.frames[<<>>].sets) >= 4
    /\ SetResultKnown(<<>>, 1)
    /\ run.frames[<<>>].vals[1] = "false"
    /\ \A h \in 2..4 : SetLeaves(<<>>, h) # {}

\* C3: when every list is non-empty, every fact is registered and every
\* lookup answers, evaluate() never fails, and it resolves to the standard
\* boolean value of the tree (`all` the conjunction and `any` the disjunction
\* of the children), which the answers given decide, whatever the priorities
\* of the conditions and of the facts.
C3_BooleanValue ==
    Wellformed =>
        /\ run.state # "rejected"
        /\ run.state = "resolved" => run.value = Truth(<<>>)

\* {all: [{any: [A, B]}, C]} with A false, B true and C true resolves true
C3_Witness ==
    /\ run.state = "resolved"
    /\ Wellformed
    /\ conditions.kind = "all"
    /\ Len(conditions.children) = 2
    /\ conditions.children[1].kind = "any"
    /\ Len(conditions.children[1].children) = 2
    /\ conditions.children[2].kind = "leaf"
    /\ run.lookups[<<1, 1>>] = "false"
    /\ run.lookups[<<1, 2>>] = "true"
    /\ run.lookups[<<2>>] = "true"
    /\ run.value = "true"

\* C4 as stated: an evaluate() call that resolves resolves with a boolean.
\* The code resolves with undefined when the root list is empty.
C4_ResolvesBoolean ==
    run.state = "resolved" => run.value \in {"true", "false"}

\* the list at p holds a leaf with no priority of its own whose fact is not registered
HasUndefinedFact(p) ==
    \E i \in 1..Len(NodeAt(conditions, p).children) :
        LET c == NodeAt(conditions, p).children[i]
        IN  c.kind = "leaf" /\ c.priority = 0 /\ ~engine.facts[c.fact].registered

\* C5: a list that holds a leaf with no priority of its own whose fact is not
\* registered fails with an undefined-fact error as soon as it is evaluated,
\* and no lookup is ever initiated for a condition of that list, whatever the
\* priorities and positions of its other conditions.
C5_UndefinedFact ==
    \A p \in DOMAIN run.frames :
        (run.frames[p].st # "none" /\ HasUndefinedFact(p)) =>
            /\ run.frames[p].st = "rejected"
            /\ run.frames[p].err.type = "UndefinedFact"
            /\ \A q \in LeavesUnder(conditions, p) : ~Initiated(q)
            /\ \A c \in DOMAIN run.frames : (IsPrefix(p, c) /\ c # p) => run.frames[c].st = "none"
            /\ (p = <<>> /\ Settled) =>
                  (run.state = "rejected" /\ run.err.type = "UndefinedFact")

\* the unregistered leaf is listed last, after two siblings of explicit priorities
C5_Witness ==
    /\ Len(conditions.children) = 3
    /\ conditions.children[1].priority = 2
    /\ conditions.children[2].priority = 1
    /\ conditions.children[3].kind = "leaf"
    /\ conditions.children[3].priority = 0
    /\ ~engine.facts[conditions.children[3].fact].registered
    /\ run.state = "rejected"
    /\ run.err.type = "UndefinedFact"

FactFailure(q) == [type |-> "FactFailure", fact |-> NodeAt(conditions, q).fact]

\* the failures raised so far in the evaluation: those of the lookups that
\* failed, and the undefined-fact errors of the lists
Failures ==
    {FactFailure(q) : q \in {l \in DOMAIN run.lookups : run.lookups[l] = "fail"}}
    \cup {run.frames[p].err :
             p \in {b \in DOMAIN run.frames : run.frames[b].err.type = "UndefinedFact"}}

\* C6 as stated: once a lookup has failed, evaluate() never resolves, and it
\* fails with the failure of that lookup.
C6_FailsWithThatFailure ==
    \A q \in DOMAIN run.lookups :
        run.lookups[q] = "fail" =>
            /\ run.state # "resolved"
            /\ run.state = "rejected" => run.err = FactFailure(q)

\* C6 as amended: once a lookup has failed, evaluate() never resolves, and it
\* fails with one of the failures raised in the evaluation: with that of the
\* lookup when it is the only one.
C6_FailsWithAFailure ==
    \A q \in DOMAIN run.lookups :
        run.lookups[q] = "fail" =>
            /\ run.state # "resolved"
            /\ run.state = "rejected" => run.err \in Failures

\* the lookup of a leaf of a nested `any` list fails after its sibling gave
\* true, under a root `all`, and evaluate() fails with that failure
C6_Witness ==
    /\ run.state = "rejected"
    /\ \E p \in DOMAIN run.frames : \E q, t \in DOMAIN run.lookups :
          /\ p # <<>>
          /\ NodeAt(conditions, p).kind = "any"
          /\ IsPrefix(p, q) /\ IsPrefix(p, t)
          /\ run.lookups[q] = "fail"
          /\ run.lookups[t] = "true"
          /\ run.err = FactFailure(q)

\* C7: when a set is evaluated, the lookup of every leaf of the set is
\* initiated and every nested list of the set is started, in the same step,
\* whatever the results of the other members, hence before the combined
\* result of the set is known.
C7_WholeSetInitiated ==
    \A p \in DOMAIN run.frames :
        LET f == run.frames[p]
        IN  \A g \in 1..f.idx :
                f.ran[g] =>
                    \A k \in 1..Len(f.sets[g]) :
                        LET q == Append(p, f.sets[g][k])
                        IN  IF NodeAt(conditions, q).kind = "leaf"
                            THEN Initiated(q)
                            ELSE run.frames[q].st # "none"

\* an `all` set of three leaves whose first-listed member is false: all three
\* lookups were initiated, and the combined result is false
C7_Witness ==
    /\ run.state # "idle"
    /\ conditions.kind = "all"
    /\ Len(conditions.children) = 3
    /\ Len(run.frames[<<>>].sets) = 1
    /\ run.lookups[<<1>>] = "false"
    /\ Initiated(<<2>>) /\ Initiated(<<3>>)
    /\ SetResultKnown(<<>>, 1)
    /\ run.frames[<<>>].vals[1] = "false"

\* C8: in a list, no lookup of a set is initiated, nested ones included, until
\* every condition of the set before it is fulfilled, no lookup of that set is
\* pending, nested ones included, and its combined result is known.
C8_SetsSequential ==
    \A p \in DOMAIN run.frames :
        LET f == run.frames[p]
        IN  \A g \in 2..Len(f.sets) :
                (\E q \in SetLeaves(p, g) : Initiated(q)) =>
                    /\ SetResultKnown(p, g - 1)
                    /\ \A k \in 1..Len(f.sets[g - 1]) :
                          ConditionPromise(run, conditions, p, f.sets[g - 1][k]).st = "fulfilled"
                    /\ \A q \in SetLeaves(p, g - 1) : run.lookups[q] # "pending"

\* the first set holds a nested list whose lookup has completed, and a lookup
\* of the second set is pending
C8_Witness ==
    /\ run.state # "idle"
    /\ Len(run.frames[<<>>].sets) = 2
    /\ \E k \in 1..Len(run.frames[<<>>].sets[1]) :
          LET q == <<run.frames[<<>>].sets[1][k]>>
          IN  /\ isBooleanOperator(NodeAt(conditions, q))
              /\ \E l \in LeavesUnder(conditions, q) : run.lookups[l] \in {"true", "false"}
    /\ \E q \in SetLeaves(<<>>, 2) : run.lookups[q] = "pending"

\* the value coerces to a number that is not positive
CoercesNonPositive(given) == parseInt(given).t = "number" /\ parseInt(given).n <= 0

\* C9: a call of setPriority with a value that coerces to a number <= 0, and a
\* call of setConditions with an object that has neither `all` nor `any`,
\* throws and leaves priority, conditions, event and engine as they were,
\* after any calls before it.
C9_FailedSetterKeepsState ==
    [][(/\ lastCall'.n = lastCall.n + 1
        /\ \/ lastCall'.op = "setPriority" /\ CoercesNonPositive(lastCall'.priority)
           \/ lastCall'.op = "setConditions" /\ lastCall'.root \notin {"all", "any"})
       => (lastCall'.threw /\ UNCHANGED rule)]_vars

\* setPriority("-1") has thrown on a rule that was constructed with
\* conditions and a priority, and given an engine since
C9_Witness ==
    /\ phase = "constructed"
    /\ lastCall.op = "setPriority"
    /\ lastCall.priority = Str(<<"-", "1">>)
    /\ lastCall.threw
    /\ lastCall.n = 3
    /\ priority = Num(2)
    /\ conditions.kind = "all"
    /\ engine.set

\* C10 as stated: the priority of a constructed rule is a positive integer.
\* The code stores NaN when the value given has no leading digits.
C10_PriorityPositive ==
    phase = "constructed" => (priority.t = "number" /\ priority.n >= 1)

\* C11 as stated: a constructor call given an explicit priority that coerces
\* to a number <= 0 (0 as well as a negative value) throws.  The code takes a
\* priority of 0 for a missing one and stores the default 1.
C11_ExplicitNonPositiveFails ==
    (lastCall.op = "constructor" /\ CoercesNonPositive(lastCall.priority)) => lastCall.threw

\* C13: no step of an evaluate() call, from the call itself to the settling
\* of its promise and of every lookup it initiated, changes the rule: its
\* priority, its event, its engine and its conditions tree (nodes, order and
\* priority fields) stay as they were, whether the call resolves or fails.
C13_EvaluateKeepsRule ==
    [][run' # run => UNCHANGED rule]_vars

\* evaluate() has failed on a tree that holds a nested list, after a lookup
\* gave true and another failed
C13_Witness ==
    /\ run.state = "rejected"
    /\ BoolPaths(conditions) # {<<>>}
    /\ \E q, t \in DOMAIN run.lookups : run.lookups[q] = "true" /\ run.lookups[t] = "fail"

\* the call of prioritizeAndRun that threw the error evaluate() failed with
Thrower(p) ==
    /\ run.frames[p].st = "rejected"
    /\ run.frames[p].idx = 0
    /\ run.frames[p].err = run.err

\* C14 as stated: when evaluate() fails with an undefined-fact error, no
\* lookup had been initiated in the call when the error was thrown, wherever
\* the leaf is in the tree.  In the code a nested list is prioritized only
\* when its set is evaluated, after the lookups of the sets before it and of
\* the leaves listed before it in its set were initiated.
C14_UndefinedFactBeforeLookups ==
    (run.state = "rejected" /\ run.err.type = "UndefinedFact") =>
        \A p \in DOMAIN run.frames : Thrower(p) => run.frames[p].seen = {}

\* the priority prioritizeConditions gives a condition: its own, or else its fact's
EffectivePriority(condition) ==
    IF condition.priority # 0 THEN condition.priority ELSE engine.facts[condition.fact].priority

\* C15: the sets prioritizeConditions gives for a list partition the list:
\* every condition is in exactly one set, the members of a set have the same
\* effective priority (the condition's own, or else its fact's), the sets come
\* in strictly descending numeric priority (10 before 9 before 2), and the
\* members of a set are in the order of the list.
C15_Partition ==
    \A p \in DOMAIN run.frames :
        LET f == run.frames[p]
            list == NodeAt(conditions, p).children
            places == {<<g, k>> \in (1..Len(f.sets)) \X (1..Len(list)) : k <= Len(f.sets[g])}
            Of(place) == list[f.sets[place[1]][place[2]]]
        IN  f.st = "fulfilled" =>
                /\ \A g \in 1..Len(f.sets) :
                      Len(f.sets[g]) \in 1..Len(list)
                      /\ \A k \in 1..Len(f.sets[g]) : f.sets[g][k] \in 1..Len(list)
                /\ \A i \in 1..Len(list) :
                      Cardinality({place \in places : f.sets[place[1]][place[2]] = i}) = 1
                /\ \A a, b \in places :
                      /\ a[1] = b[1] => EffectivePriority(Of(a)) = EffectivePriority(Of(b))
                      /\ a[1] < b[1] => EffectivePriority(Of(a)) > EffectivePriority(Of(b))
                      /\ (a[1] = b[1] /\ a[2] < b[2]) =>
                            f.sets[a[1]][a[2]] < f.sets[b[1]][b[2]]

\* leaves of priorities 9, 2 and 10, in that order, give the sets of 10, of 9 and of 2
C15_Witness ==
    /\ run.state = "pending"
    /\ Len(conditions.children) = 3
    /\ \A i \in 1..3 : conditions.children[i].kind = "leaf"
    /\ conditions.children[1].priority = 9
    /\ conditions.children[2].priority = 2
    /\ conditions.children[3].priority = 10
    /\ run.frames[<<>>].sets = <<(<<3>>), (<<1>>), (<<2>>)>>

\* the list that holds the condition at q
Parent(q) == SubSeq(q, 1, Len(q) - 1)

\* the set that holds the condition at q in its list has been evaluated
InEvaluatedSet(q) ==
    LET f == run.frames[Parent(q)]
    IN  \E g \in 1..f.idx :
            f.ran[g] /\ \E k \in 1..Len(f.sets[g]) : f.sets[g][k] = q[Len(q)]

\* C16: a leaf is looked up, and a nested list is started, only when the set
\* that holds it in its own list is evaluated; so no leaf below a nested list
\* is looked up before the set that holds the nested list is reached in the
\* parent list, whatever the leaf's priority: a leaf of a nested list is in
\* no set of the parent list, even with the priority of a condition of it.
C16_GroupingLocal ==
    /\ \A q \in DOMAIN run.lookups : Initiated(q) => InEvaluatedSet(q)
    /\ \A c \in DOMAIN run.frames \ {<<>>} : run.frames[c].st # "none" => InEvaluatedSet(c)
    /\ \A q \in DOMAIN run.lookups :
          Initiated(q) => \A c \in DOMAIN run.frames \ {<<>>} : IsPrefix(c, q) => InEvaluatedSet(c)

\* a leaf of the root list is looked up in the first set; a leaf of the same
\* priority inside a nested list of the second set is not
C16_Witness ==
    /\ run.state = "pending"
    /\ Len(run.frames[<<>>].sets) = 2
    /\ run.frames[<<>>].idx = 1
    /\ \E l, q \in DOMAIN run.lookups :
          /\ Len(l) = 1 /\ Len(q) = 2
          /\ NodeAt(conditions, l).priority = MaxPriority
          /\ NodeAt(conditions, q).priority = MaxPriority
          /\ Initiated(l)
          /\ ~Initiated(q)
          /\ \E k \in 1..Len(run.frames[<<>>].sets[2]) : run.frames[<<>>].sets[2][k] = q[1]

\* C17 as stated: when the promise of evaluate() settles no lookup is
\* pending, and once it is settled no lookup is initiated.  When a lookup
\* fails, Promise.all rejects at once and evaluate() fails while the other
\* lookups of the set are pending.
C17_SettlesAfterLookups ==
    [][Settled' =>
          /\ \A q \in DOMAIN run'.lookups : run'.lookups[q] # "pending"
          /\ Settled => \A q \in DOMAIN run.lookups :
                            run.lookups[q] = "none" => run'.lookups[q] = "none"]_vars

\* C17 as amended: when the promise of evaluate() resolves no lookup is
\* pending, and once it is resolved no lookup is initiated.
C17_ResolvesAfterLookups ==
    [][run'.state = "resolved" =>
          /\ \A q \in DOMAIN run'.lookups : run'.lookups[q] # "pending"
          /\ run.state = "resolved" => \A q \in DOMAIN run.lookups :
                                           run.lookups[q] = "none" => run'.lookups[q] = "none"]_vars

\* an `any` list resolved true on its first set, of two lookups or more that
\* all completed, one of them false; the lookups of its second set never began
C17_Witness ==
    /\ run.state = "resolved"
    /\ conditions.kind = "any"
    /\ Len(run.frames[<<>>].sets) >= 2
    /\ Cardinality(SetLeaves(<<>>, 1)) >= 2
    /\ \E q \in SetLeaves(<<>>, 1) : run.lookups[q] = "false"
    /\ \A q \in SetLeaves(<<>>, 1) : run.lookups[q] \in {"true", "false"}
    /\ \E q \in SetLeaves(<<>>, 2) : ~Initiated(q)

\* the set of the list at p that holds the leaf at q, or the nested list q is below
SetOf(p, q) ==
    CHOOSE g \in 1..Len(run.frames[p].sets) :
        \E k \in 1..Len(run.frames[p].sets[g]) : run.frames[p].sets[g][k] = q[Len(p) + 1]

\* C20: once a lookup of a set of a list has failed, nested ones included, no
\* lookup of a later set of that list is ever initiated.
C20_NoSetAfterFailure ==
    \A q, t \in DOMAIN run.lookups :
        (run.lookups[q] = "fail" /\ Initiated(t)) =>
            \A p \in DOMAIN run.frames :
                (IsPrefix(p, q) /\ IsPrefix(p, t)) => SetOf(p, t) <= SetOf(p, q)

\* in the first set of an `any` list a lookup gave true and another failed;
\* evaluate() has failed and the second set was never started
C20_Witness ==
    /\ run.state = "rejected"
    /\ conditions.kind = "any"
    /\ Len(run.frames[<<>>].sets) >= 2
    /\ run.frames[<<>>].idx = 1
    /\ \E q, t \in SetLeaves(<<>>, 1) : run.lookups[q] = "fail" /\ run.lookups[t] = "true"
    /\ SetLeaves(<<>>, 2) # {}
    /\ \A q \in SetLeaves(<<>>, 2) : ~Initiated(q)

\* C19: when every callback that is ready runs and every lookup initiated
\* completes, an evaluate() call that is pending eventually settles: it
\* resolves or fails.
C19_EventuallySettles ==
    (run.state = "pending") ~> Settled

\* evaluate() has settled on a list nested in a list nested in a list, after
\* the lookup of the innermost leaf completed
C19_Witness ==
    /\ Settled
    /\ \E q \in DOMAIN run.lookups : Len(q) = 3 /\ run.lookups[q] \in Answers

\* the call r has settled and nothing it started is left to run: no lookup is
\* pending, no set is being evaluated and no callback is waiting
Quiescent(r) ==
    /\ r.state \in {"resolved", "rejected"}
    /\ \A q \in DOMAIN r.lookups : r.lookups[q] # "pending"
    /\ \A p \in DOMAIN r.frames : r.frames[p].st \in {"none", "rejected"} \/ Returned(r.frames[p])

\* what the call r delivered
Outcome(r) == [state |-> r.state, value |-> r.value, err |-> r.err]

\* the leaves for which the call r called engine.factValue
Looked(r) == {q \in DOMAIN r.lookups : r.lookups[q] # "none"}

\* the failures raised in the call r
FailuresIn(r) ==
    {FactFailure(q) : q \in {l \in DOMAIN r.lookups : r.lookups[l] = "fail"}}
    \cup {r.frames[p].err :
             p \in {b \in DOMAIN r.frames : r.frames[b].err.type = "UndefinedFact"}}

\* C12 as stated: two calls made in sequence against fixed answers deliver
\* the same outcome, the same boolean or the same failure, and initiate the
\* same lookups.  With two failing lookups in one set, each call fails with
\* the failure that completes first in it.
C12_SameOutcomeTwice ==
    (order = "sequential" /\ Quiescent(run) /\ Quiescent(second)) =>
        /\ Outcome(run) = Outcome(second)
        /\ Looked(run) = Looked(second)

\* C12 as amended: two calls made in sequence against fixed answers both
\* resolve, with the same boolean, or both fail, each with one of the
\* failures raised in it, the same failures being raised in both (so the
\* same failure when there is only one), and they initiate the same lookups.
C12_SameVerdictTwice ==
    (order = "sequential" /\ Quiescent(run) /\ Quiescent(second)) =>
        /\ run.state = second.state
        /\ run.value = second.value
        /\ FailuresIn(run) = FailuresIn(second)
        /\ run.state = "rejected" => (run.err \in FailuresIn(run) /\ second.err \in FailuresIn(second))
        /\ Looked(run) = Looked(second)

\* both calls, the second made after the first settled, resolved true on a
\* tree with a nested list, each without looking up the leaf of the second set
C12_Witness ==
    /\ order = "sequential"
    /\ Quiescent(run) /\ Quiescent(second)
    /\ BoolPaths(conditions) # {<<>>}
    /\ run.state = "resolved" /\ run.value = "true"
    /\ second.state = "resolved" /\ second.value = "true"
    /\ Looked(run) # {} /\ Looked(run) # DOMAIN run.lookups

\* what evaluating the condition at q alone gives against the fixed answers:
\* its value (val), the failures it can fail with (errs, none when it gives a
\* value) and the leaves looked up (looked)
RECURSIVE Alone(_)
RECURSIVE AloneSets(_, _, _, _)
Alone(q) ==
    LET condition == NodeAt(conditions, q)
        answer == provider[condition.fact]
        ordered == prioritizeConditions(condition.children, engine)
    IN  IF condition.kind = "leaf"
        THEN [val |-> IF answer = "fail" THEN "undefined" ELSE answer,
              errs |-> IF answer = "fail" THEN {FactFailure(q)} ELSE {},
              looked |-> {q}]
        ELSE IF ordered.thrown
        THEN [val |-> "undefined", errs |-> {ordered.err}, looked |-> {}]
        ELSE AloneSets(q, ordered.sets, 1, [val |-> "undefined", errs |-> {}, looked |-> {}])

\* the sets of the list at p from set g on, after the sets before gave acc
AloneSets(p, sets, g, acc) ==
    LET operator == NodeAt(conditions, p).kind
        members == [k \in 1..Len(sets[g]) |-> Alone(Append(p, sets[g][k]))]
        looked == acc.looked \cup UNION {members[k].looked : k \in 1..Len(sets[g])}
        errs == UNION {members[k].errs : k \in 1..Len(sets[g])}
        results == [k \in 1..Len(sets[g]) |-> members[k].val]
    IN  IF g > Len(sets) \/ acc.errs # {} THEN acc
        ELSE IF (operator = "any" /\ acc.val = "true") \/ (operator = "all" /\ acc.val = "false")
        THEN AloneSets(p, sets, g + 1, acc)
        ELSE IF errs # {}
        THEN [val |-> "undefined", errs |-> errs, looked |-> looked]
        ELSE AloneSets(p, sets, g + 1,
                       [val |-> IF operator = "all"
                                THEN (IF \A k \in 1..Len(results) : results[k] = "true"
                                      THEN "true" ELSE "false")
                                ELSE (IF \E k \in 1..Len(results) : results[k] = "true"
                                      THEN "true" ELSE "false"),
                        errs |-> {}, looked |-> looked])

\* the call r delivered what the rule gives alone, and looked up the same leaves
AsAlone(r) ==
    LET alone == Alone(<<>>)
    IN  /\ alone.errs = {} => (r.state = "resolved" /\ r.value = alone.val)
        /\ alone.errs # {} => (r.state = "rejected" /\ r.err \in alone.errs)
        /\ Looked(r) = alone.looked

\* C18: of two calls on one rule that run concurrently against fixed answers,
\* their steps interleaved in any way, each delivers what a call alone
\* delivers (the boolean, or one of the failures a call alone can fail with)
\* and initiates the lookups a call alone initiates.
C18_ConcurrentAsAlone ==
    (order = "concurrent" /\ Quiescent(run) /\ Quiescent(second)) =>
        (AsAlone(run) /\ AsAlone(second))

\* the second call was made while the first was pending; both short-circuited
\* on the first set of an `all` list, which has a second set
C18_Witness ==
    /\ order = "concurrent"
    /\ Quiescent(run) /\ Quiescent(second)
    /\ conditions.kind = "all"
    /\ Len(run.frames[<<>>].sets) = 2
    /\ run.state = "resolved" /\ run.value = "false"
    /\ second.state = "resolved" /\ second.value = "false"
    /\ Looked(run) # DOMAIN run.lookups
    /\ Looked(second) = Looked(run)

====
